---------------------------- MODULE Spec2Model ----------------------------
(***************************************************************************)
(* A model of verify.py, the GitHub asset verification script:             *)
(* run_verification loads the credentials, then runs the four steps        *)
(* (existence, structure, content accuracy, commit record) against the     *)
(* GitHub REST API, and the process exits 0 or 1.                          *)
(*                                                                         *)
(* Text is a sequence of Unicode code points, a response payload a         *)
(* sequence of base64 symbols (0..63, the pad, or a character outside the  *)
(* alphabet), bytes are 0..255.                                            *)
(***************************************************************************)
EXTENDS Integers, Sequences, FiniteSets, TLC

(***************************************************************************)
(* Bounds of the model.                                                    *)
(***************************************************************************)
\* lines per file served by the contents API in Spec
MaxLines == 2
\* commits in the repository's history in Spec
MaxHistory == 2
\* characters of the contents drawn in SpecContent
MaxLen == 5

(***************************************************************************)
(* Characters.                                                             *)
(***************************************************************************)
NL == 10
DOT == 46
BACKSLASH == 92
ChLabel == 25968
ChOne == 49
ChTwo == 50
ChArabicOne == 1633
ChLowerA == 97
ChUpperA == 65
ChLowerB == 98
ChUpperB == 66
DefaultMaxCommits == 10

\* \d of a str pattern: the Unicode decimal digits; here the ASCII digits
\* and the Arabic-Indic ones
IsDigit(c) == (c >= 48 /\ c <= 57) \/ (c >= 1632 /\ c <= 1641)

\* the case folding re.IGNORECASE applies, on the ASCII letters
Lower(c) == IF c >= 65 /\ c <= 90 THEN c + 32 ELSE c

(***************************************************************************)
(* base64.b64decode(s): binascii.a2b_base64 in its default, non-strict     *)
(* mode.  Characters outside the alphabet are skipped, a pad that          *)
(* completes a quad ends the decoding, data left in an incomplete quad is  *)
(* an error.                                                               *)
(***************************************************************************)
B64Pad == 64
B64Other == 65

RECURSIVE A2B(_, _, _, _, _, _)
A2B(s, i, quad, left, pads, out) ==
    IF i > Len(s) THEN [ok |-> quad = 0, bytes |-> out]
    ELSE LET ch == s[i] IN
         IF ch = B64Pad THEN
             IF quad >= 2 /\ quad + pads + 1 >= 4
             THEN [ok |-> TRUE, bytes |-> out]
             ELSE A2B(s, i + 1, quad, left,
                      IF quad >= 2 THEN pads + 1 ELSE pads, out)
         ELSE IF ch >= 64 THEN A2B(s, i + 1, quad, left, pads, out)
         ELSE CASE quad = 0 -> A2B(s, i + 1, 1, ch, 0, out)
                [] quad = 1 -> A2B(s, i + 1, 2, ch % 16, 0,
                                   Append(out, left * 4 + ch \div 16))
                [] quad = 2 -> A2B(s, i + 1, 3, ch % 4, 0,
                                   Append(out, left * 16 + ch \div 4))
                [] OTHER    -> A2B(s, i + 1, 0, 0, 0,
                                   Append(out, left * 64 + ch))

B64Decode(s) == A2B(s, 1, 0, 0, 0, <<>>)

(***************************************************************************)
(* bytes.decode("utf-8"), strict: one to four bytes per character, no      *)
(* overlong forms, no surrogates, nothing above U+10FFFF.                  *)
(***************************************************************************)
IsCont(b) == b >= 128 /\ b <= 191

RECURSIVE Utf8From(_, _, _)
Utf8From(bs, i, out) ==
    IF i > Len(bs) THEN [ok |-> TRUE, text |-> out]
    ELSE LET b == bs[i]
             has(n) == i + n <= Len(bs)
             c(n) == bs[i + n] % 64
         IN
         IF b < 128 THEN Utf8From(bs, i + 1, Append(out, b))
         ELSE IF b >= 194 /\ b <= 223 THEN
             IF has(1) /\ IsCont(bs[i + 1])
             THEN Utf8From(bs, i + 2, Append(out, (b % 32) * 64 + c(1)))
             ELSE [ok |-> FALSE, text |-> <<>>]
         ELSE IF b >= 224 /\ b <= 239 THEN
             IF /\ has(2) /\ IsCont(bs[i + 1]) /\ IsCont(bs[i + 2])
                /\ (b = 224 => bs[i + 1] >= 160)
                /\ (b = 237 => bs[i + 1] <= 159)
             THEN Utf8From(bs, i + 3,
                           Append(out, (b % 16) * 4096 + c(1) * 64 + c(2)))
             ELSE [ok |-> FALSE, text |-> <<>>]
         ELSE IF b >= 240 /\ b <= 244 THEN
             IF /\ has(3) /\ IsCont(bs[i + 1]) /\ IsCont(bs[i + 2])
                /\ IsCont(bs[i + 3])
                /\ (b = 240 => bs[i + 1] >= 144)
                /\ (b = 244 => bs[i + 1] <= 143)
             THEN Utf8From(bs, i + 4,
                           Append(out, (b % 8) * 262144 + c(1) * 4096
                                       + c(2) * 64 + c(3)))
             ELSE [ok |-> FALSE, text |-> <<>>]
         ELSE [ok |-> FALSE, text |-> <<>>]

Utf8Decode(bs) == Utf8From(bs, 1, <<>>)

(***************************************************************************)
(* What the contents API does to a file before it serves it: UTF-8 bytes,  *)
(* then base64 with padding.                                               *)
(***************************************************************************)
Utf8Char(cp) ==
    IF cp < 128 THEN <<cp>>
    ELSE IF cp < 2048 THEN <<192 + cp \div 64, 128 + (cp % 64)>>
    ELSE IF cp < 65536
         THEN <<224 + cp \div 4096, 128 + ((cp \div 64) % 64), 128 + (cp % 64)>>
    ELSE <<240 + cp \div 262144, 128 + ((cp \div 4096) % 64),
           128 + ((cp \div 64) % 64), 128 + (cp % 64)>>

RECURSIVE Utf8Encode(_)
Utf8Encode(text) ==
    IF text = <<>> THEN <<>>
    ELSE Utf8Char(Head(text)) \o Utf8Encode(Tail(text))

RECURSIVE B64Encode(_)
B64Encode(bs) ==
    IF Len(bs) = 0 THEN <<>>
    ELSE IF Len(bs) = 1
         THEN <<bs[1] \div 4, (bs[1] % 4) * 16, B64Pad, B64Pad>>
    ELSE IF Len(bs) = 2
         THEN <<bs[1] \div 4, (bs[1] % 4) * 16 + bs[2] \div 16,
                (bs[2] % 16) * 4, B64Pad>>
    ELSE <<bs[1] \div 4, (bs[1] % 4) * 16 + bs[2] \div 16,
           (bs[2] % 16) * 4 + bs[3] \div 64, (bs[3] % 64)>>
         \o B64Encode(SubSeq(bs, 4, Len(bs)))

(***************************************************************************)
(* Text operations of the verification steps.                              *)
(***************************************************************************)
\* sub in s
Contains(sub, s) ==
    \E i \in 0..(Len(s) - Len(sub)) : SubSeq(s, i + 1, i + Len(sub)) = sub

\* s.split("\n")
RECURSIVE SplitFrom(_, _, _)
SplitFrom(s, i, cur) ==
    IF i > Len(s) THEN <<cur>>
    ELSE IF s[i] = NL THEN <<cur>> \o SplitFrom(s, i + 1, <<>>)
    ELSE SplitFrom(s, i + 1, Append(cur, s[i]))

SplitLines(s) == SplitFrom(s, 1, <<>>)

\* re.search(r"(\d+)", line): the leftmost digit, extended greedily;
\* <<>> when the line has no digit (the match is None)
FirstDigitRun(line) ==
    LET starts == {i \in 1..Len(line) : IsDigit(line[i])} IN
    IF starts = {} THEN <<>>
    ELSE LET a == CHOOSE i \in starts : \A j \in starts : i <= j
             b == CHOOSE j \in a..Len(line) :
                      /\ \A k \in a..j : IsDigit(line[k])
                      /\ (j = Len(line) \/ ~IsDigit(line[j + 1]))
         IN SubSeq(line, a, b)

\* re.compile(p) for the patterns of the model: literal characters, "." and
\* an escaped "\."
RECURSIVE RegexAtoms(_)
RegexAtoms(p) ==
    IF p = <<>> THEN <<>>
    ELSE IF Head(p) = BACKSLASH /\ Len(p) >= 2
         THEN <<<<"lit", p[2]>>>> \o RegexAtoms(SubSeq(p, 3, Len(p)))
    ELSE IF Head(p) = DOT THEN <<<<"any", 0>>>> \o RegexAtoms(Tail(p))
    ELSE <<<<"lit", Head(p)>>>> \o RegexAtoms(Tail(p))

\* "." matches anything but a newline; a literal matches itself, up to case
\* under re.IGNORECASE
AtomMatches(atom, c, ignorecase) ==
    IF atom[1] = "any" THEN c # NL
    ELSE IF ignorecase THEN Lower(atom[2]) = Lower(c)
    ELSE atom[2] = c

\* pattern.search(s): a match starting anywhere in s
RegexSearch(p, s, ignorecase) ==
    LET atoms == RegexAtoms(p)
        n == Len(atoms)
    IN \E i \in 0..(Len(s) - n) :
           \A k \in 1..n : AtomMatches(atoms[k], s[i + k], ignorecase)

(***************************************************************************)
(* verify_file_structure: the required structures missing from the         *)
(* content, in configuration order.                                        *)
(***************************************************************************)
RECURSIVE MissingFrom(_, _, _, _)
MissingFrom(content, structs, i, missing) ==
    IF i > Len(structs) THEN missing
    ELSE MissingFrom(content, structs, i + 1,
                     IF ~Contains(structs[i], content)
                     THEN Append(missing, structs[i]) ELSE missing)

\* mutant: the loop breaks at the first missing structure
MissingStructuresFirstOnly(content, structs) ==
    LET all == MissingFrom(content, structs, 1, <<>>) IN
    IF all = <<>> THEN <<>> ELSE <<all[1]>>

MissingStructures(content, structs) == MissingFrom(content, structs, 1, <<>>)

(***************************************************************************)
(* verify_content_accuracy.                                                *)
(***************************************************************************)
\* mutant: re.findall, any digit run of the line may equal the expected text
StatLineMatchesAnyRun(line, target, expected) ==
    /\ Contains(target, line)
    /\ \E a \in 1..Len(line) : \E b \in a..Len(line) :
          /\ \A k \in a..b : IsDigit(line[k])
          /\ (a = 1 \/ ~IsDigit(line[a - 1]))
          /\ (b = Len(line) \/ ~IsDigit(line[b + 1]))
          /\ SubSeq(line, a, b) = expected

\* one line of the stat_match scan: the line holds the target and its first
\* digit run is the expected text
StatLineMatches(line, target, expected) ==
    /\ Contains(target, line)
    /\ FirstDigitRun(line) # <<>>
    /\ FirstDigitRun(line) = expected

\* mutant: the loop breaks at the first line that holds the target, whether
\* or not its number is the expected one
RECURSIVE StatScanStopAtFirstLabel(_, _, _, _)
StatScanStopAtFirstLabel(lines, i, target, expected) ==
    IF i > Len(lines) THEN 0
    ELSE IF Contains(target, lines[i])
         THEN IF StatLineMatches(lines[i], target, expected) THEN i ELSE 0
    ELSE StatScanStopAtFirstLabel(lines, i + 1, target, expected)

\* the stat_match loop over the lines: the index of the line at which it
\* breaks, 0 when it runs to the end without a match
RECURSIVE StatScan(_, _, _, _)
StatScan(lines, i, target, expected) ==
    IF i > Len(lines) THEN 0
    ELSE IF StatLineMatches(lines[i], target, expected) THEN i
    ELSE StatScan(lines, i + 1, target, expected)

\* the value of `matched` after the rule's branch
RuleMatched(rule, content) ==
    CASE rule.type = "stat_match" ->
             StatScan(SplitLines(content), 1, rule.target, rule.expected) # 0
      [] rule.type = "regex_match" -> RegexSearch(rule.expected, content, FALSE)
      [] rule.type = "text_match" -> Contains(rule.expected, content)
      [] OTHER -> FALSE

\* mutant: the loop goes on after a failed rule and fails at its end, as
\* verify_file_structure does
RECURSIVE RuleLoopCollectAll(_, _, _, _)
RuleLoopCollectAll(rules, i, content, log) ==
    IF i > Len(rules)
    THEN [ok |-> \A j \in 1..Len(log) : log[j][2], log |-> log]
    ELSE RuleLoopCollectAll(rules, i + 1, content,
                            Append(log, <<i, RuleMatched(rules[i], content)>>))

\* the loop over the rules: the rules evaluated, each with its outcome, and
\* whether the loop ran to its end
RECURSIVE RuleLoop(_, _, _, _)
RuleLoop(rules, i, content, log) ==
    IF i > Len(rules) THEN [ok |-> TRUE, log |-> log]
    ELSE LET m == RuleMatched(rules[i], content) IN
         IF ~m THEN [ok |-> FALSE, log |-> Append(log, <<i, FALSE>>)]
         ELSE RuleLoop(rules, i + 1, content, Append(log, <<i, TRUE>>))

ContentAccuracy(content, rules) ==
    IF rules = <<>> THEN [ok |-> TRUE, log |-> <<>>]
    ELSE RuleLoop(rules, 1, content, <<>>)

(***************************************************************************)
(* call_github_api: one GET; (success, result).                            *)
(***************************************************************************)
NoResult == [json |-> "none", keys |-> {}, content |-> <<>>, items |-> <<>>]

call_github_api(resp) ==
    IF resp.kind = "exception" THEN [success |-> FALSE, result |-> NoResult]
    ELSE IF resp.status = 200 THEN
        IF resp.body.json = "not_json"
        THEN [success |-> FALSE, result |-> NoResult]
        ELSE [success |-> TRUE, result |-> resp.body]
    ELSE [success |-> FALSE, result |-> NoResult]

\* not result
Falsy(result) ==
    CASE result.json = "none" -> TRUE
      [] result.json = "dict" -> result.keys = {}
      [] result.json = "list" -> result.items = <<>>
      [] OTHER -> FALSE

(***************************************************************************)
(* get_repo_file_content: the text of the file, or None.                   *)
(***************************************************************************)
None == [none |-> TRUE, text |-> <<>>]

get_repo_file_content(resp) ==
    LET r == call_github_api(resp) IN
    IF ~r.success \/ Falsy(r.result) THEN None
    ELSE IF r.result.json # "dict" THEN None
    ELSE LET payload == IF "content" \in r.result.keys
                        THEN r.result.content ELSE <<>>
             raw == B64Decode(payload)
             txt == IF raw.ok THEN Utf8Decode(raw.bytes)
                    ELSE [ok |-> FALSE, text |-> <<>>]
         IN IF txt.ok THEN [none |-> FALSE, text |-> txt.text] ELSE None

(***************************************************************************)
(* search_commits: the commits the API returned are searched in order.     *)
(***************************************************************************)
\* the index of the first commit whose message the pattern finds, 0 if none
RECURSIVE FirstMatchingCommit(_, _, _)
FirstMatchingCommit(commits, i, pattern) ==
    IF i > Len(commits) THEN 0
    ELSE IF RegexSearch(pattern, commits[i], TRUE) THEN i
    ELSE FirstMatchingCommit(commits, i + 1, pattern)

\* mutant: the pattern compiled without re.IGNORECASE
search_commits_case_sensitive(resp, pattern) ==
    LET r == call_github_api(resp) IN
    IF ~r.success THEN FALSE
    ELSE \E i \in 1..Len(r.result.items) :
             RegexSearch(pattern, r.result.items[i], FALSE)

search_commits(resp, pattern) ==
    LET r == call_github_api(resp) IN
    IF ~r.success THEN FALSE
    ELSE FirstMatchingCommit(r.result.items, 1, pattern) # 0

\* commit_config.get("max_commits", 10)
MaxCommitsOf(commit_config) ==
    IF commit_config.has_max THEN commit_config.max_commits
    ELSE DefaultMaxCommits

(***************************************************************************)
(* The environment: os.environ and the .env file before the run.           *)
(***************************************************************************)
Unset == [set |-> FALSE, value |-> ""]
EnvVar(v) == [set |-> TRUE, value |-> v]
OsValues == {Unset, EnvVar(""), EnvVar("x")}
DotValues == {Unset, EnvVar("x")}

\* load_dotenv(".env") keeps a variable the process already has
\* (override=False) and adds the others; os.environ.get then reads it
LoadedVar(os, dot) == IF os.set THEN os ELSE dot

\* mutant: the test `github_token is None`, which lets an empty value pass
MissingNoneOnly(v) == ~v.set

\* not github_token: None or the empty string
Missing(v) == ~v.set \/ v.value = ""

(***************************************************************************)
(* The configurations: VERIFICATION_CONFIG, with its lists drawn from      *)
(* small pools.                                                            *)
(***************************************************************************)
TxtLabel == <<ChLabel>>
TxtA == <<ChLowerA>>
TxtOne == <<ChOne>>

Rule(t, target, expected) == [type |-> t, target |-> target, expected |-> expected]
RuleStat1 == Rule("stat_match", TxtLabel, TxtOne)
RuleStat12 == Rule("stat_match", TxtLabel, <<ChOne, ChTwo>>)
RuleText == Rule("text_match", TxtLabel, TxtA)
RuleRegex == Rule("regex_match", TxtLabel, <<ChLabel, DOT>>)

NoCommitRule ==
    [configured |-> FALSE, msg_pattern |-> <<>>, has_max |-> FALSE, max_commits |-> 0]
CommitRule(p, has, n) ==
    [configured |-> TRUE, msg_pattern |-> p, has_max |-> has, max_commits |-> n]
PatAB == <<ChLowerA, ChLowerB>>
CommitRules ==
    {NoCommitRule, CommitRule(PatAB, TRUE, 1), CommitRule(PatAB, TRUE, 2),
     CommitRule(PatAB, FALSE, 0)}

Config(structs, rules, commit) ==
    [required_structures |-> structs, content_rules |-> rules,
     commit_verification |-> commit]

RunConfigs ==
    {Config(s, r, c) :
        s \in {<<>>, <<TxtLabel>>, <<TxtLabel, TxtA>>},
        r \in {<<>>, <<RuleStat1>>, <<RuleStat1, RuleText>>, <<RuleRegex, RuleStat1>>},
        c \in CommitRules}

(***************************************************************************)
(* The remote repository: what the two endpoints can answer.               *)
(***************************************************************************)
Min(a, b) == IF a <= b THEN a ELSE b

\* the texts of n lines drawn from pool, joined by newlines
RECURSIVE TextsOfLines(_, _)
TextsOfLines(pool, n) ==
    IF n = 1 THEN pool
    ELSE {t \o <<NL>> \o l : t \in TextsOfLines(pool, n - 1), l \in pool}

FileLinePool ==
    {<<ChLabel, ChOne>>, <<ChLabel, ChTwo>>, <<ChLowerA>>,
     <<ChArabicOne, ChLabel, ChOne>>}

ServedTexts ==
    {<<>>} \cup UNION {TextsOfLines(FileLinePool, n) : n \in 1..MaxLines}

Payload(text) == B64Encode(Utf8Encode(text))

\* payloads the decoding refuses or has to clean: a lost last symbol, line
\* breaks inside the payload, the bytes of a character cut short
LabelBytes == Utf8Encode(TxtLabel)
BrokenPayloads ==
    {SubSeq(Payload(TxtLabel \o TxtOne), 1, 5),
     SubSeq(Payload(TxtA), 1, 3),
     <<B64Other>> \o Payload(TxtLabel \o TxtOne) \o <<B64Other>>,
     B64Encode(SubSeq(LabelBytes, 1, 2)),
     B64Encode(<<128>>)}

Dict(keys, payload) ==
    [json |-> "dict", keys |-> keys, content |-> payload, items |-> <<>>]
List(items) == [json |-> "list", keys |-> {}, content |-> <<>>, items |-> items]
NotJson == [json |-> "not_json", keys |-> {}, content |-> <<>>, items |-> <<>>]

Response(status, body) == [kind |-> "response", status |-> status, body |-> body]
Exception == [kind |-> "exception", status |-> 0, body |-> NoResult]
NoResponse == [kind |-> "none", status |-> 0, body |-> NoResult]
FailedResponses == {Response(404, NotJson), Response(500, NotJson), Exception}

FileResponses ==
    {Response(200, Dict({"content", "name"}, p)) :
        p \in {Payload(t) : t \in ServedTexts} \cup BrokenPayloads}
    \cup {Response(200, Dict({"name"}, <<>>)), Response(200, Dict({}, <<>>)),
          Response(200, List(<<TxtA>>)), Response(200, NotJson)}
    \cup FailedResponses

\* commit messages, most recent first
MsgMatching == <<ChLowerB, ChUpperA, ChUpperB>>
MsgOther == <<ChLowerB, ChLowerA>>
MsgPool == {MsgMatching, MsgOther}

RECURSIVE SeqsOf(_, _)
SeqsOf(pool, n) ==
    IF n = 0 THEN {<<>>}
    ELSE {Append(h, m) : h \in SeqsOf(pool, n - 1), m \in pool}

Histories ==
    UNION {SeqsOf(MsgPool, n) : n \in 0..MaxHistory}
    \cup {[i \in 1..k |-> MsgOther] \o <<MsgMatching>> :
             k \in {DefaultMaxCommits - 1, DefaultMaxCommits}}

\* GET commits?per_page=n answers with the n most recent commits
CommitsPage(hist, n) == SubSeq(hist, 1, Min(n, Len(hist)))

\* what the commits endpoint can answer to per_page=n, with the history the
\* answer was cut from
CommitFetches(n) ==
    {[history |-> h, resp |-> Response(200, List(CommitsPage(h, n)))] :
        h \in Histories}
    \cup {[history |-> <<>>, resp |-> r] :
             r \in FailedResponses \cup {Response(200, NotJson)}}

(***************************************************************************)
(* The state of a run.                                                     *)
(***************************************************************************)
VARIABLES
    osenv,          \* os.environ before the run: GITHUB_TOKEN, GITHUB_ORG
    dotenv,         \* the .env file
    config,         \* VERIFICATION_CONFIG
    pc,             \* where run_verification stands
    github_token,   \* load_env's results
    github_org,
    file_content,   \* verify_file_existence's content
    missing,        \* verify_file_structure's missing list
    ruleLog,        \* the content rules evaluated, with their outcomes
    stepLog,        \* the steps started, in order, each with its result
    requests,       \* the GET requests issued, in order
    fileResponse,   \* the contents endpoint's answer
    history,        \* the repository's commits when the commits request came
    commitResponse, \* the commits endpoint's answer
    returned,       \* run_verification's return value: "none" until it returns
    exitCode        \* the process's exit code, -1 while it runs

vars == <<osenv, dotenv, config, pc, github_token, github_org, file_content,
          missing, ruleLog, stepLog, requests, fileResponse, history,
          commitResponse, returned, exitCode>>

Request(endpoint, per_page, success) ==
    [endpoint |-> endpoint, per_page |-> per_page, success |-> success]

Init ==
    /\ osenv \in [token : OsValues, org : OsValues]
    /\ dotenv \in [token : DotValues, org : DotValues]
    /\ config \in RunConfigs
    /\ pc = "load_env"
    /\ github_token = Unset
    /\ github_org = Unset
    /\ file_content = <<>>
    /\ missing = <<>>
    /\ ruleLog = <<>>
    /\ stepLog = <<>>
    /\ requests = <<>>
    /\ fileResponse = NoResponse
    /\ history = <<>>
    /\ commitResponse = NoResponse
    /\ returned = "none"
    /\ exitCode = -1

\* run_verification up to the credentials check
load_env ==
    /\ pc = "load_env"
    /\ LET token == LoadedVar(osenv.token, dotenv.token)
           org == LoadedVar(osenv.org, dotenv.org)
       IN /\ github_token' = token
          /\ github_org' = org
          /\ IF Missing(token) \/ Missing(org)
             THEN pc' = "exit" /\ returned' = "False"
             ELSE pc' = "existence" /\ returned' = returned
    /\ UNCHANGED <<osenv, dotenv, config, file_content, missing, ruleLog,
                   stepLog, requests, fileResponse, history, commitResponse,
                   exitCode>>

\* mutant: the test `content is None`, which lets an empty file pass
verify_file_existence_is_none ==
    /\ pc = "existence"
    /\ \E resp \in FileResponses :
          LET content == get_repo_file_content(resp)
              exists == ~content.none
          IN /\ fileResponse' = resp
             /\ requests' = Append(requests,
                    Request("contents", 0, call_github_api(resp).success))
             /\ stepLog' = Append(stepLog, <<"existence", exists>>)
             /\ IF exists
                THEN /\ file_content' = content.text
                     /\ pc' = "structure"
                     /\ returned' = returned
                ELSE /\ file_content' = file_content
                     /\ pc' = "exit"
                     /\ returned' = "False"
    /\ UNCHANGED <<osenv, dotenv, config, github_token, github_org, missing,
                   ruleLog, history, commitResponse, exitCode>>

\* verify_file_existence and the test of its result
verify_file_existence ==
    /\ pc = "existence"
    /\ \E resp \in FileResponses :
          LET content == get_repo_file_content(resp)
              exists == ~content.none /\ content.text # <<>>
          IN /\ fileResponse' = resp
             /\ requests' = Append(requests,
                    Request("contents", 0, call_github_api(resp).success))
             /\ stepLog' = Append(stepLog, <<"existence", exists>>)
             /\ IF exists
                THEN /\ file_content' = content.text
                     /\ pc' = "structure"
                     /\ returned' = returned
                ELSE /\ file_content' = file_content
                     /\ pc' = "exit"
                     /\ returned' = "False"
    /\ UNCHANGED <<osenv, dotenv, config, github_token, github_org, missing,
                   ruleLog, history, commitResponse, exitCode>>

\* mutant: the result of verify_file_structure is not tested
verify_file_structure_no_gate ==
    /\ pc = "structure"
    /\ LET m == MissingStructures(file_content, config.required_structures)
       IN /\ missing' = m
          /\ stepLog' = Append(stepLog, <<"structure", m = <<>> >>)
          /\ pc' = "content"
          /\ returned' = returned
    /\ UNCHANGED <<osenv, dotenv, config, github_token, github_org,
                   file_content, ruleLog, requests, fileResponse, history,
                   commitResponse, exitCode>>

\* verify_file_structure and the test of its result
verify_file_structure ==
    /\ pc = "structure"
    /\ LET m == MissingStructures(file_content, config.required_structures)
       IN /\ missing' = m
          /\ stepLog' = Append(stepLog, <<"structure", m = <<>> >>)
          /\ IF m # <<>>
             THEN pc' = "exit" /\ returned' = "False"
             ELSE pc' = "content" /\ returned' = returned
    /\ UNCHANGED <<osenv, dotenv, config, github_token, github_org,
                   file_content, ruleLog, requests, fileResponse, history,
                   commitResponse, exitCode>>

\* verify_content_accuracy and the test of its result
verify_content_accuracy ==
    /\ pc = "content"
    /\ LET r == ContentAccuracy(file_content, config.content_rules)
       IN /\ ruleLog' = r.log
          /\ stepLog' = Append(stepLog, <<"content", r.ok>>)
          /\ IF ~r.ok
             THEN pc' = "exit" /\ returned' = "False"
             ELSE pc' = "commit" /\ returned' = returned
    /\ UNCHANGED <<osenv, dotenv, config, github_token, github_org,
                   file_content, missing, requests, fileResponse, history,
                   commitResponse, exitCode>>

\* mutant: a failed commits request is issued a second time
verify_commit_record_retry ==
    /\ pc = "commit"
    /\ pc' = "exit"
    /\ LET cc == config.commit_verification IN
       IF ~cc.configured
       THEN /\ stepLog' = Append(stepLog, <<"commit", TRUE>>)
            /\ returned' = "True"
            /\ UNCHANGED <<requests, history, commitResponse>>
       ELSE \E f \in CommitFetches(MaxCommitsOf(cc)) :
               LET found == search_commits(f.resp, cc.msg_pattern)
                   req == Request("commits", MaxCommitsOf(cc),
                                  call_github_api(f.resp).success)
               IN
               /\ history' = f.history
               /\ commitResponse' = f.resp
               /\ requests' = IF req.success THEN Append(requests, req)
                              ELSE Append(Append(requests, req), req)
               /\ stepLog' = Append(stepLog, <<"commit", found>>)
               /\ returned' = IF found THEN "True" ELSE "False"
    /\ UNCHANGED <<osenv, dotenv, config, github_token, github_org,
                   file_content, missing, ruleLog, fileResponse, exitCode>>

\* verify_commit_record, the test of its result and the return that follows
verify_commit_record ==
    /\ pc = "commit"
    /\ pc' = "exit"
    /\ LET cc == config.commit_verification IN
       IF ~cc.configured
       THEN /\ stepLog' = Append(stepLog, <<"commit", TRUE>>)
            /\ returned' = "True"
            /\ UNCHANGED <<requests, history, commitResponse>>
       ELSE \E f \in CommitFetches(MaxCommitsOf(cc)) :
               LET found == search_commits(f.resp, cc.msg_pattern) IN
               /\ history' = f.history
               /\ commitResponse' = f.resp
               /\ requests' = Append(requests,
                     Request("commits", MaxCommitsOf(cc),
                             call_github_api(f.resp).success))
               /\ stepLog' = Append(stepLog, <<"commit", found>>)
               /\ returned' = IF found THEN "True" ELSE "False"
    /\ UNCHANGED <<osenv, dotenv, config, github_token, github_org,
                   file_content, missing, ruleLog, fileResponse, exitCode>>

\* mutant: sys.exit(success), which exits 1 for True and 0 for False
SysExitOfBool ==
    /\ pc = "exit"
    /\ pc' = "done"
    /\ exitCode' = IF returned = "True" THEN 1 ELSE 0
    /\ UNCHANGED <<osenv, dotenv, config, github_token, github_org,
                   file_content, missing, ruleLog, stepLog, requests,
                   fileResponse, history, commitResponse, returned>>

\* sys.exit(0 if success else 1)
SysExit ==
    /\ pc = "exit"
    /\ pc' = "done"
    /\ exitCode' = IF returned = "True" THEN 0 ELSE 1
    /\ UNCHANGED <<osenv, dotenv, config, github_token, github_org,
                   file_content, missing, ruleLog, stepLog, requests,
                   fileResponse, history, commitResponse, returned>>

Next ==
    \/ load_env
    \/ verify_file_existence
    \/ verify_file_structure
    \/ verify_content_accuracy
    \/ verify_commit_record
    \/ SysExit

Spec == Init /\ [][Next]_vars

(***************************************************************************)
(* The two content steps on every short file over a small alphabet: the    *)
(* run taken from the point where verify_file_existence has returned the   *)
(* file, with the credentials loaded.                                      *)
(***************************************************************************)
ContentAlphabet == {NL, ChLabel, ChOne, ChTwo}

\* every text of up to MaxLen characters, and the served files, some of
\* which hold a non-ASCII digit
ContentTexts ==
    UNION {SeqsOf(ContentAlphabet, n) : n \in 1..MaxLen}
    \cup (ServedTexts \ {<<>>})

RuleText1 == Rule("text_match", TxtLabel, <<ChLabel, ChOne>>)
RuleOther == Rule("line_match", TxtLabel, TxtOne)

ContentConfigs ==
    {Config(s, <<>>, NoCommitRule) :
        s \in UNION {SeqsOf({TxtLabel, <<ChOne, ChTwo>>}, n) : n \in 0..2}}
    \cup {Config(<<>>, r, NoCommitRule) :
        r \in UNION {SeqsOf({RuleStat1, RuleStat12, RuleText1, RuleRegex}, n) :
                         n \in 1..2}
              \cup {<<RuleOther>>, <<RuleStat1, RuleRegex, RuleText1>>}}

InitContent ==
    /\ osenv = [token |-> EnvVar("x"), org |-> EnvVar("x")]
    /\ dotenv = [token |-> Unset, org |-> Unset]
    /\ config \in ContentConfigs
    /\ pc = "structure"
    /\ github_token = EnvVar("x")
    /\ github_org = EnvVar("x")
    /\ \E t \in ContentTexts :
          LET resp == Response(200, Dict({"content", "name"}, Payload(t))) IN
          /\ fileResponse = resp
          /\ file_content = get_repo_file_content(resp).text
    /\ missing = <<>>
    /\ ruleLog = <<>>
    /\ stepLog = << <<"existence", TRUE>> >>
    /\ requests = <<Request("contents", 0, TRUE)>>
    /\ history = <<>>
    /\ commitResponse = NoResponse
    /\ returned = "none"
    /\ exitCode = -1

NextContent ==
    \/ verify_file_structure
    \/ verify_content_accuracy
    \/ verify_commit_record
    \/ SysExit

SpecContent == InitContent /\ [][NextContent]_vars

(***************************************************************************)
(* Properties.                                                             *)
(***************************************************************************)
StepOrder == <<"existence", "structure", "content", "commit">>

\* a credential as the run finds it: the process's value if it has one,
\* else the .env file's, and not empty
PresentVar(os, dot) ==
    IF os.set THEN os.value # "" ELSE dot.set /\ dot.value # ""

CredsPresent ==
    /\ PresentVar(osenv.token, dotenv.token)
    /\ PresentVar(osenv.org, dotenv.org)

AllStepsPassed ==
    /\ Len(stepLog) = 4
    /\ \A i \in 1..4 : stepLog[i][2]

\* C1: the steps start in the order existence, structure, content accuracy,
\* commit record; a step starts only when every earlier step has passed, so
\* after a failed step no later step ever starts.
C1_StepsGated ==
    /\ Len(stepLog) <= 4
    /\ \A i \in 1..Len(stepLog) :
          /\ stepLog[i][1] = StepOrder[i]
          /\ \A j \in 1..(i - 1) : stepLog[j][2]

\* C1 witness: a finished run whose content-accuracy step failed, so that the
\* commit step never started
C1_Witness ==
    /\ pc = "done"
    /\ Len(stepLog) = 3
    /\ ~stepLog[3][2]
    /\ config.commit_verification.configured

\* C2: the process exits 0 exactly when both credentials are present and all
\* four steps passed, and exits 1 in every other run.
C2_ExitCode ==
    /\ pc # "done" => exitCode = -1
    /\ pc = "done" =>
          /\ exitCode \in {0, 1}
          /\ exitCode = 0 <=> (CredsPresent /\ AllStepsPassed)

\* C2 witness: a run that exits 0 after a commits request
C2_Witness ==
    /\ pc = "done"
    /\ exitCode = 0
    /\ Len(requests) = 2

\* C3: when GITHUB_TOKEN or GITHUB_ORG is missing or empty, the run fails
\* with no request issued and no step started, whatever the configuration.
C3_NoNetworkWithoutCredentials ==
    ~CredsPresent =>
        /\ requests = <<>>
        /\ stepLog = <<>>
        /\ fileResponse = NoResponse
        /\ commitResponse = NoResponse
        /\ pc \in {"load_env", "exit", "done"}
        /\ pc # "load_env" => returned = "False"
        /\ pc = "done" => exitCode = 1

\* C3 witness: a finished run with the token set and an empty GITHUB_ORG,
\* under a configuration with structures, rules and a commit rule
C3_Witness ==
    /\ pc = "done"
    /\ osenv.token = EnvVar("x")
    /\ osenv.org = EnvVar("")
    /\ config.required_structures # <<>>
    /\ config.content_rules # <<>>
    /\ config.commit_verification.configured

\* the commit pattern, a literal text here, occurs in the message when case
\* is ignored
FoldCase(c) == IF c \in 65..90 THEN c + 32 ELSE c

OccursIgnoringCase(pat, msg) ==
    \E i \in 0..(Len(msg) - Len(pat)) :
        \A k \in 1..Len(pat) : FoldCase(msg[i + k]) = FoldCase(pat[k])

CommitFetchOk ==
    /\ commitResponse.kind = "response"
    /\ commitResponse.status = 200
    /\ commitResponse.body.json = "list"

\* the configured number of commits to inspect, 10 when none is configured
InspectedCommits ==
    IF config.commit_verification.has_max
    THEN config.commit_verification.max_commits ELSE DefaultMaxCommits

\* C7: with a commit rule, the commit step asks for the N most recent
\* commits and passes exactly when the fetch succeeds and one of the first N
\* commits of the history has a message the pattern finds, case ignored;
\* without a commit rule it passes, and issues no request.
C7_CommitRecord ==
    Len(stepLog) = 4 =>
        IF ~config.commit_verification.configured
        THEN stepLog[4][2] /\ Len(requests) = 1
        ELSE /\ requests[2].per_page = InspectedCommits
             /\ Len(commitResponse.body.items) <= InspectedCommits
             /\ stepLog[4][2] <=>
                   /\ CommitFetchOk
                   /\ \E i \in 1..Len(history) :
                         /\ i <= InspectedCommits
                         /\ OccursIgnoringCase(
                                config.commit_verification.msg_pattern,
                                history[i])

\* C7 witness: the fetch succeeded and the only commit that matches lies
\* beyond the first N, so the step failed
C7_Witness ==
    /\ Len(stepLog) = 4
    /\ ~stepLog[4][2]
    /\ CommitFetchOk
    /\ \E i \in 1..Len(history) :
          /\ i > InspectedCommits
          /\ OccursIgnoringCase(config.commit_verification.msg_pattern,
                                history[i])

\* the ways the fetch of the file fails: an exception, a status other than
\* 200 (404 among them), a body without a content field, a payload that is
\* not base64 or not UTF-8, an empty file
FetchFails(resp) ==
    \/ resp.kind = "exception"
    \/ resp.kind = "response" /\ resp.status # 200
    \/ /\ resp.kind = "response"
       /\ resp.status = 200
       /\ resp.body.json = "dict"
       /\ LET raw == B64Decode(resp.body.content)
              txt == Utf8Decode(raw.bytes)
          IN \/ "content" \notin resp.body.keys
             \/ ~raw.ok
             \/ ~txt.ok
             \/ txt.text = <<>>

\* C8: whenever the fetch of the file fails, the existence step fails, no
\* other step starts, no other request is issued, and the process exits 1.
C8_FetchFailureAborts ==
    FetchFails(fileResponse) =>
        /\ stepLog = << <<"existence", FALSE>> >>
        /\ Len(requests) = 1
        /\ missing = <<>>
        /\ ruleLog = <<>>
        /\ commitResponse = NoResponse
        /\ pc \in {"exit", "done"}
        /\ returned = "False"
        /\ pc = "done" => exitCode = 1

\* C8 witness: a finished run whose payload was base64 but not UTF-8
C8_Witness ==
    /\ pc = "done"
    /\ fileResponse.kind = "response"
    /\ fileResponse.status = 200
    /\ "content" \in fileResponse.body.keys
    /\ B64Decode(fileResponse.body.content).ok
    /\ ~Utf8Decode(B64Decode(fileResponse.body.content).bytes).ok

\* C10: a run issues at most two requests: first the contents request, then
\* at most one commits request, which comes only after the first three steps
\* passed and only under a commit rule; no request follows a failed one.
C10_NoRetry ==
    /\ Len(requests) <= 2
    /\ Len(requests) >= 1 => requests[1].endpoint = "contents"
    /\ Len(requests) = 2 =>
          /\ requests[2].endpoint = "commits"
          /\ requests[1].success
          /\ config.commit_verification.configured
          /\ Len(stepLog) = 4
          /\ \A i \in 1..3 : stepLog[i][2]

\* C10 witness: a finished run whose commits request failed
C10_Witness ==
    /\ pc = "done"
    /\ Len(requests) = 2
    /\ ~requests[2].success

\* sub occurs in s as a literal substring
Occurs(sub, s) ==
    \E i \in 1..(Len(s) + 1) : \E j \in (i - 1)..Len(s) : SubSeq(s, i, j) = sub

\* C5: the structure step passes exactly when every required structure
\* occurs in the content, and its missing list is the list of the absent
\* ones, all of them, in configuration order.
C5_StructureMissing ==
    Len(stepLog) >= 2 =>
        LET structs == config.required_structures
            absent(x) == ~Occurs(x, file_content)
        IN /\ stepLog[2][2] <=> \A i \in 1..Len(structs) : ~absent(structs[i])
           /\ missing = SelectSeq(structs, absent)

\* C5 witness: a finished run with two different structures missing, while
\* the content holds other text
C5_Witness ==
    /\ pc = "done"
    /\ Len(missing) = 2
    /\ missing[1] # missing[2]
    /\ ~stepLog[2][2]

\* C6: the rules are evaluated in configuration order up to the first one
\* that does not match, and none after it; with no rule nothing is
\* evaluated and the step passes; the step passes exactly when every rule
\* matches.
C6_RulesFailFast ==
    Len(stepLog) >= 3 =>
        LET rules == config.content_rules
            n == Len(ruleLog)
        IN /\ n <= Len(rules)
           /\ \A j \in 1..n :
                 /\ ruleLog[j][1] = j
                 /\ ruleLog[j][2] = RuleMatched(rules[j], file_content)
                 /\ j < n => ruleLog[j][2]
           /\ stepLog[3][2] <=>
                 \A i \in 1..Len(rules) : RuleMatched(rules[i], file_content)
           /\ stepLog[3][2] => n = Len(rules)
           /\ ~stepLog[3][2] => n >= 1 /\ ~ruleLog[n][2]
           /\ rules = <<>> => stepLog[3][2] /\ ruleLog = <<>>

\* C6 witness: the first of two rules failed and the second, which would
\* have matched, was not evaluated
C6_Witness ==
    /\ Len(stepLog) = 3
    /\ Len(config.content_rules) = 2
    /\ ruleLog = << <<1, FALSE>> >>
    /\ RuleMatched(config.content_rules[2], file_content)

\* the decimal digits
DecDigit(c) == c \in 48..57 \/ c \in 1632..1641

\* the line holds the label, and its leftmost maximal run of digits, before
\* or after the label, is the expected text
LineQualifies(line, target, expected) ==
    /\ Occurs(target, line)
    /\ \E d \in 1..Len(line) :
          LET e == d + Len(expected) - 1 IN
          /\ \A k \in 1..(d - 1) : ~DecDigit(line[k])
          /\ e >= d
          /\ e <= Len(line)
          /\ \A k \in d..e : DecDigit(line[k])
          /\ e = Len(line) \/ ~DecDigit(line[e + 1])
          /\ SubSeq(line, d, e) = expected

\* the lines of s: the stretches without a newline that a newline or an end
\* of s bounds on each side
IsLineOf(s, a, b) ==
    /\ a = 1 \/ s[a - 1] = NL
    /\ b = Len(s) \/ s[b + 1] = NL
    /\ \A k \in a..b : s[k] # NL

\* the first content rule is a stat_match rule and has been evaluated
StatRuleEvaluated ==
    /\ Len(stepLog) >= 3
    /\ config.content_rules # <<>>
    /\ config.content_rules[1].type = "stat_match"

\* C9: a stat_match rule passes exactly when some line of the content holds
\* the target label and has the expected text as its first run of digits,
\* wherever in the line that run stands; later runs do not count.
C9_StatMatch ==
    StatRuleEvaluated =>
        LET rule == config.content_rules[1]
            s == file_content
        IN ruleLog[1][2] <=>
              \E a \in 1..(Len(s) + 1) : \E b \in (a - 1)..Len(s) :
                  /\ IsLineOf(s, a, b)
                  /\ LineQualifies(SubSeq(s, a, b), rule.target, rule.expected)

\* C9 witness: the rule passed on a line whose expected number stands before
\* the label and whose later number is another one
C9_Witness ==
    /\ StatRuleEvaluated
    /\ config.content_rules[1] = RuleStat1
    /\ file_content = <<ChOne, ChLabel, ChTwo>>
    /\ ruleLog[1][2]

\* line i holds the label and a number, and the number is not the expected
HasOtherNumber(line, target, expected) ==
    /\ Occurs(target, line)
    /\ \E k \in 1..Len(line) : DecDigit(line[k])
    /\ ~LineQualifies(line, target, expected)

\* C4 as stated: when the first line that holds the label carries a number
\* other than the expected one, the rule does not match, a qualifying line
\* further down notwithstanding.
C4_Original ==
    StatRuleEvaluated =>
        LET rule == config.content_rules[1]
            lines == SplitLines(file_content)
        IN \A i \in 1..Len(lines) :
              (/\ HasOtherNumber(lines[i], rule.target, rule.expected)
               /\ \A j \in 1..(i - 1) : ~Occurs(rule.target, lines[j]))
              => ~ruleLog[1][2]

\* C4 amended: the scan ends at the first qualifying line, 0 when there is
\* none, and the rule matches exactly when there is one; a line with the
\* label and another number is never that line and does not end the scan.
C4_FirstQualifyingLineWins ==
    StatRuleEvaluated =>
        LET rule == config.content_rules[1]
            lines == SplitLines(file_content)
            qual == {i \in 1..Len(lines) :
                        LineQualifies(lines[i], rule.target, rule.expected)}
            first == IF qual = {} THEN 0
                     ELSE CHOOSE i \in qual : \A j \in qual : i <= j
            scan == StatScan(lines, 1, rule.target, rule.expected)
        IN /\ scan = first
           /\ ruleLog[1][2] <=> first # 0
           /\ \A i \in 1..Len(lines) :
                 HasOtherNumber(lines[i], rule.target, rule.expected)
                 => scan # i

\* C4 witness: the rule matched although the first line that holds the label
\* carries another number, because a later line qualifies
C4_Witness ==
    /\ StatRuleEvaluated
    /\ ruleLog[1][2]
    /\ LET rule == config.content_rules[1]
           lines == SplitLines(file_content)
       IN \E i \in 1..Len(lines) :
             /\ HasOtherNumber(lines[i], rule.target, rule.expected)
             /\ \A j \in 1..(i - 1) : ~Occurs(rule.target, lines[j])
             /\ \E j \in (i + 1)..Len(lines) :
                   LineQualifies(lines[j], rule.target, rule.expected)

=============================================================================
